---- MODULE Spec2Model ----
(***************************************************************************)
(* loggerl: a process-local logger writing leveled lines to rotating files *)
(* under ./logs.  The source holds two variants of the module: the simple  *)
(* one (getLogFile, names app-<pid>-<day>-<n>.log) and the refined one     *)
(* (createLogFile / initStream / currentFile, names                        *)
(* app-<pid>-<day>-<time>-<n>.log).  Both are modelled; `variant` says     *)
(* which one a behaviour runs.                                             *)
(*                                                                         *)
(* File names are sequences of one-character strings, so that startsWith,  *)
(* sort(), split() and parseInt() are computed on the characters as the    *)
(* code computes them.  A write stream is opened lazily: createWriteStream *)
(* returns at once and the file appears on disk only when the open         *)
(* completes (StreamOpen); lines handed to a stream are queued and reach   *)
(* the file later (StreamFlush).                                           *)
(***************************************************************************)
EXTENDS Integers, Sequences, FiniteSets, TLC

\* ------------------------------------------------------------------ bounds
MaxCalls == 3          \* log calls of a behaviour of Spec and SpecCapture
MaxOdd == 1            \* of them, calls with a short line or made while lines wait
MaxFaultCalls == 4     \* log calls of a behaviour of SpecFault and SpecDay
MaxDeepCalls == 12     \* log calls of a behaviour of SpecRotate
MaxDeepOdd == 1        \* of them, calls with a short line or made while lines wait
MaxTwoCalls == 7       \* log calls of a behaviour of SpecTwo
MaxOtherCalls == 2     \* of them, the first calls, which either process may make
MaxTod == 1            \* seconds of the day the clock can reach
SmallLine == 1000      \* bytes of a short line
MaxChunks == 2         \* data chunks the child processes emit
MaxCaptures == 2       \* captureProcess registrations
MaxSignals == 2        \* termination signals delivered to a process
MaxMsgCalls == 2       \* log calls of a behaviour of SpecMessages
MaxTails == 2          \* captureFile registrations
MaxTicks == 3          \* ticks of the polling timers
MsgShort == 1          \* lengths of the messages logged: short ones,
MsgUnder == 999        \* those around maxLength,
MsgOver == 1001
MsgLong == 1015        \* and one longer than maxLength and the marker
MsgLens == {0, MsgShort, MsgUnder, MsgUnder + 1, MsgOver, MsgLong}

\* --------------------------------------------------------- program constants
MAX_FILE_SIZE == 5 * 1024 * 1024
MAX_FILES == 5

\* safeStringify cuts a message at 1000 characters, so one line never carries a
\* file over the threshold.  A call with BigLine bytes stands for a run of calls
\* made in one turn of the event loop whose lines total more than MAX_FILE_SIZE:
\* no line of the run is on disk before the turn ends, so every call of the run
\* sees the same directory and the same sizes, and the bytes reach the file
\* when the stream is flushed.  The run is modelled as one call and one line;
\* calls that follow one another within a turn are the calls made while lines
\* wait on the stream.
BigLine == MAX_FILE_SIZE + 1
LineLens == {SmallLine, BigLine}

Levels == {"info", "warn", "error", "debug"}
PID1 == 7
PID2 == 71
\* the calendar days the clock runs through
Days == << [y |-> 2026, m |-> 11, d |-> 4], [y |-> 2026, m |-> 11, d |-> 5] >>
\* the values of NODE_ENV and LOG_JSON a process is started with
NodeEnvs == {"unset", "", "development", "production"}
LogJsons == {"unset", "true", "false"}

\* ------------------------------------------------------------------ strings
Chars == <<"-", ".", "0", "1", "2", "3", "4", "5", "6", "7", "8", "9",
           "N", "a", "g", "l", "o", "p">>
\* UTF-16 code unit of a character (the order sort() and < compare by)
Code(c) ==
  CASE c = "-" -> 45 [] c = "." -> 46
    [] c = "0" -> 48 [] c = "1" -> 49 [] c = "2" -> 50 [] c = "3" -> 51
    [] c = "4" -> 52 [] c = "5" -> 53 [] c = "6" -> 54 [] c = "7" -> 55
    [] c = "8" -> 56 [] c = "9" -> 57
    [] c = "N" -> 78 [] c = "a" -> 97 [] c = "g" -> 103 [] c = "l" -> 108
    [] c = "o" -> 111 [] c = "p" -> 112

IsDigit(c) == Code(c) >= 48 /\ Code(c) <= 57
DigitChar(d) == Chars[d + 3]

RECURSIVE IntToString(_)
\* Number.prototype.toString / template interpolation of a non-negative integer
IntToString(n) ==
  IF n < 10 THEN <<DigitChar(n)>> ELSE IntToString(n \div 10) \o <<DigitChar(n % 10)>>

\* NaN is kept as -1; `${NaN}` is "NaN"
NaN == -1
NumToString(n) == IF n = NaN THEN <<"N", "a", "N">> ELSE IntToString(n)

\* String.prototype.padStart(2, "0")
padStart2(s) == IF Len(s) < 2 THEN <<"0">> \o s ELSE s

\* String.prototype.startsWith
startsWith(s, prefix) ==
  Len(prefix) <= Len(s) /\ SubSeq(s, 1, Len(prefix)) = prefix

RECURSIVE StrLessFrom(_, _, _)
StrLessFrom(a, b, i) ==
  IF i > Len(a) THEN i <= Len(b)
  ELSE IF i > Len(b) THEN FALSE
  ELSE IF a[i] = b[i] THEN StrLessFrom(a, b, i + 1)
  ELSE Code(a[i]) < Code(b[i])
\* a < b for strings: by code units, a proper prefix first
StrLess(a, b) == StrLessFrom(a, b, 1)

RECURSIVE sort(_)
\* Array.prototype.sort() with the default comparison, on a set of distinct names
sort(S) ==
  IF S = {} THEN <<>>
  ELSE LET least == CHOOSE x \in S : \A y \in S \ {x} : StrLess(x, y)
       IN <<least>> \o sort(S \ {least})

RECURSIVE LastIndexOf(_, _, _)
\* the greatest index <= i of s holding c, 0 when there is none
LastIndexOf(s, c, i) ==
  IF i = 0 THEN 0 ELSE IF s[i] = c THEN i ELSE LastIndexOf(s, c, i - 1)

RECURSIVE IndexOf(_, _, _)
\* the least index >= i of s holding c, Len(s) + 1 when there is none
IndexOf(s, c, i) ==
  IF i > Len(s) THEN Len(s) + 1 ELSE IF s[i] = c THEN i ELSE IndexOf(s, c, i + 1)

\* latest.split("-").pop()
LastDashPart(s) == SubSeq(s, LastIndexOf(s, "-", Len(s)) + 1, Len(s))
\* part.split(".")[0]
BeforeDot(s) == SubSeq(s, 1, IndexOf(s, ".", 1) - 1)

RECURSIVE DigitsValue(_, _, _)
DigitsValue(s, i, acc) ==
  IF i > Len(s) \/ ~IsDigit(s[i]) THEN acc
  ELSE DigitsValue(s, i + 1, acc * 10 + (Code(s[i]) - 48))
\* parseInt(s, 10) of a string without sign or blanks: the leading digits, or NaN
parseInt(s) == IF s = <<>> \/ ~IsDigit(s[1]) THEN NaN ELSE DigitsValue(s, 1, 0)

\* ------------------------------------------------------------------- state
VARIABLES
  variant,      \* "simple" or "refined": which variant of the module runs
  nodeEnv,      \* process.env.NODE_ENV at startup
  logJson,      \* process.env.LOG_JSON at startup
  active,       \* the process ids of the running processes
  maxCalls,     \* the number of log calls the behaviour may make
  oddLeft,      \* the number of log calls the behaviour may still make with a
                \* short line or while lines wait on the active stream
  day, tod,     \* the clock: index into Days, second of the day
  dirExists,    \* whether the log directory exists
  disk,         \* the files of the log directory: name -> [size, lines, born]
  births,       \* number of files created so far
  everCreated,  \* the names of the files created so far
  streams,      \* the write streams not yet closed: id -> stream
  nextSid,      \* the id of the next stream
  stream,       \* pid -> id of the stream the variable `stream` holds
  currentFile,  \* pid -> the variable `currentFile` (refined variant)
  calls,        \* number of log calls made; a line's id is its call's number
  lost,         \* ids of the lines that did not reach a file of the directory
  listeners,    \* the "data" listeners on the child processes' streams, in order
  live,         \* capture id -> child, for the captures made and not detached
  caps,         \* number of captureProcess calls made
  chunks,       \* number of data chunks the child processes have emitted
  target,       \* the file captureFile tails: absent, unreadable, or its content
  timers,       \* timer id -> whether the interval set by captureFile still runs
  ticks,        \* number of ticks the polling timers have made
  shutdown,     \* termination: the signals delivered, the streams whose end
                \* carries the process.exit callback, the lines that were queued
                \* on the active stream at a signal, whether process.exit ran
  obs           \* what the last operation did

vars == <<variant, nodeEnv, logJson, active, maxCalls, oddLeft, day, tod, dirExists,
          disk,
          births, everCreated, streams, nextSid, stream, currentFile, calls, lost,
          listeners, live, caps, chunks, target, timers, ticks, shutdown, obs>>

PIDs == {PID1, PID2}

\* -------------------------------------------------------------- the clock
Dash == <<"-">>
getDateString ==
  IntToString(Days[day].y) \o Dash \o padStart2(IntToString(Days[day].m))
    \o Dash \o padStart2(IntToString(Days[day].d))

getTimeString ==
  padStart2(IntToString(tod \div 3600)) \o Dash
    \o padStart2(IntToString((tod \div 60) % 60)) \o Dash
    \o padStart2(IntToString(tod % 60))

\* ------------------------------------------------------------- file names
App == <<"a", "p", "p">>
DotLog == <<".", "l", "o", "g">>
\* a prefix that stops at the pid: `app-${process.pid}`
PidPrefix(p) == App \o Dash \o IntToString(p)
\* `app-${process.pid}-${dateStr}`
FamilyPrefix(p) == App \o Dash \o IntToString(p) \o Dash \o getDateString
\* `app-${process.pid}-${dateStr}-${num}.log`
SimpleName(p, num) == FamilyPrefix(p) \o Dash \o NumToString(num) \o DotLog
\* `app-${process.pid}-${dateStr}-${timeStr}-${num}.log`
RefinedName(p, num) ==
  FamilyPrefix(p) \o Dash \o getTimeString \o Dash \o NumToString(num) \o DotLog

\* the sequence number a name carries, as the File Namer reads it
SeqOf(name) == parseInt(BeforeDot(LastDashPart(name)))

\* ------------------------------------------------------------ environment
\* const ENV = process.env.NODE_ENV || "development"
ENV == IF nodeEnv \in {"unset", ""} THEN "development" ELSE nodeEnv
ENABLE_DEBUG == ENV = "development"
USE_JSON == logJson = "true"

\* ------------------------------------------------- the state of a handler
\* The part of the state a handler changes while it runs.
World ==
  [disk |-> disk, streams |-> streams, nextSid |-> nextSid, stream |-> stream,
   currentFile |-> currentFile, lost |-> lost, obs |-> obs]

NoObs ==
  [op |-> "init", pid |-> 0, src |-> "", level |-> "", line |-> 0, threw |-> FALSE,
   out |-> 0, handed |-> <<>>, deleted |-> <<>>, namer |-> <<>>, reinit |-> FALSE,
   rotated |-> FALSE, preRemoved |-> FALSE, diag |-> 0, uncaught |-> FALSE,
   child |-> "", chan |-> "", made |-> <<>>, ret |-> "", msg |-> <<>>,
   text |-> <<>>, timer |-> 0]

\* fs.existsSync(path.join(logDir, name))
existsSync(w, name) == dirExists /\ name \in DOMAIN w.disk
\* fs.statSync(...).size
statSize(w, name) == w.disk[name].size

\* fs.readdirSync(logDir).filter((f) => f.startsWith(prefix)).sort()
FamilyFiles(w, p) == sort({f \in DOMAIN w.disk : startsWith(f, FamilyPrefix(p))})

\* fs.unlinkSync: the name leaves the directory; a stream that has the file open
\* keeps writing to the unlinked file
unlinkSync(w, name) ==
  [w EXCEPT
     !.disk = [f \in DOMAIN w.disk \ {name} |-> w.disk[f]],
     !.streams = [s \in DOMAIN w.streams |->
                    IF w.streams[s].path = name /\ w.streams[s].st = "open"
                    THEN [w.streams[s] EXCEPT !.orphan = TRUE]
                    ELSE w.streams[s]],
     !.obs.deleted = Append(@, [name |-> name, born |-> w.disk[name].born])]

\* stream = fs.createWriteStream(path, { flags: "a" }), with or without the
\* "error" listener: the open is issued and completes later
createWriteStream(w, p, path, handler) ==
  [w EXCEPT
     !.streams = w.streams @@
        (w.nextSid :> [pid |-> p, path |-> path, st |-> "opening", queue |-> <<>>,
                       ended |-> FALSE, orphan |-> FALSE, ext |-> FALSE,
                       handler |-> handler]),
     !.stream[p] = w.nextSid,
     !.nextSid = @ + 1]

\* stream.end(): no more lines; the stream closes once its queue is written
streamEnd(w, p) == [w EXCEPT !.streams[w.stream[p]].ended = TRUE]

\* the ids of the lines queued on a stream
QueuedOn(st) == {st.queue[i][1] : i \in DOMAIN st.queue}

\* stream.write(line): the line is queued on the stream the variable holds.  On
\* an ended or destroyed stream the write fails with an "error" event, and the
\* stream, which destroys itself on an error (autoDestroy), drops the lines it
\* still holds
streamWrite(w, p, id, len) ==
  LET s == w.stream[p] IN
  IF w.streams[s].ended \/ w.streams[s].st = "failed"
  THEN [w EXCEPT !.lost = @ \cup {id} \cup QueuedOn(w.streams[s]),
                 !.streams[s].queue = <<>>,
                 !.streams[s].st = "failed",
                 !.obs.handed = Append(@, s),
                 !.obs.diag = IF w.streams[s].handler THEN 1 ELSE 0,
                 !.obs.uncaught = ~w.streams[s].handler]
  ELSE [w EXCEPT !.streams[s].queue = Append(@, <<id, len>>),
                 !.obs.handed = Append(@, s)]

Throw(w) == [w EXCEPT !.obs.threw = TRUE]

\* ----------------------------------------------------------- the File Namer
NewestIn(w, fam) ==
  IF fam = {} THEN <<>>
  ELSE CHOOSE f \in fam : \A g \in fam : w.disk[g].born <= w.disk[f].born
\* the family's most recently created file on disk, <<>> when there is none
NewestOf(w, p) ==
  NewestIn(w, {f \in DOMAIN w.disk : startsWith(f, FamilyPrefix(p))})

IsOver(w, newest) == newest # <<>> /\ w.disk[newest].size > MAX_FILE_SIZE
\* records an invocation of the File Namer: the path it returned and whether
\* the family's newest file was over the threshold
NoteNamer(w, p, path) ==
  [w EXCEPT !.obs.namer =
     Append(@, [path |-> path, over |-> IsOver(w, NewestOf(w, p))])]

\* files.length > 0 ? files[files.length - 1] : first
LatestOr(files, first) == IF files = <<>> THEN first ELSE files[Len(files)]

\* (parseInt(numPart) || 0) + 1
SimpleNum(parsed) == (IF parsed = NaN THEN 0 ELSE parsed) + 1
\* the name getLogFile returns once it has chosen `latest`
SimpleNext(w, p, latest) ==
  IF existsSync(w, latest) /\ statSize(w, latest) > MAX_FILE_SIZE
  THEN SimpleName(p, SimpleNum(parseInt(BeforeDot(LastDashPart(latest)))))
  ELSE latest
\* getLogFile() of the simple variant; the caller has checked that the directory
\* can be listed
getLogFile(w, p) == SimpleNext(w, p, LatestOr(FamilyFiles(w, p), SimpleName(p, 1)))

\* latest.split("-").pop()?.split(".")[0] || "0"
OrZero(part) == IF part = <<>> THEN <<"0">> ELSE part
\* parseInt(numPart) + 1
RefinedNum(parsed) == IF parsed = NaN THEN NaN ELSE parsed + 1
\* the name createLogFile returns once it has chosen `latest`
RefinedNext(w, p, latest) ==
  IF ~existsSync(w, latest) \/ statSize(w, latest) > MAX_FILE_SIZE
  THEN RefinedName(p, RefinedNum(parseInt(OrZero(BeforeDot(LastDashPart(latest))))))
  ELSE latest
\* createLogFile() of the refined variant; the caller has checked that the
\* directory can be listed
createLogFile(w, p) ==
  RefinedNext(w, p, LatestOr(FamilyFiles(w, p), RefinedName(p, 1)))

\* currentFile = createLogFile(); stream = fs.createWriteStream(currentFile, ...)
initStreamAt(w, p, path) ==
  createWriteStream([NoteNamer(w, p, path) EXCEPT !.currentFile[p] = path],
                    p, path, TRUE)
\* initStream(): readdirSync throws when the directory is gone, before
\* currentFile or stream is assigned
initStream(w, p) ==
  IF ~dirExists THEN Throw(w) ELSE initStreamAt(w, p, createLogFile(w, p))

\* ------------------------------------------------------ the Rotation Engine
RECURSIVE Retain(_, _)
\* while (files.length > MAX_FILES) fs.unlinkSync(path.join(logDir, files.shift()!))
Retain(w, files) ==
  IF Len(files) > MAX_FILES THEN Retain(unlinkSync(w, Head(files)), Tail(files))
  ELSE w

\* the retention step both variants end with; readdirSync throws when the
\* directory is gone
Retention(w, p) == IF ~dirExists THEN Throw(w) ELSE Retain(w, FamilyFiles(w, p))

\* stream.path of the stream the variable holds
StreamPath(w, p) == w.streams[w.stream[p]].path

\* stream = fs.createWriteStream(getLogFile(), { flags: "a" }) after stream.end()
reopenAt(e, p, path) ==
  createWriteStream([NoteNamer(e, p, path) EXCEPT !.obs.rotated = TRUE],
                    p, path, FALSE)
reopen(e, p) == reopenAt(e, p, getLogFile(e, p))

\* rotateIfNeeded() of the simple variant
rotateIfNeededSimple(w, p) ==
  Retention(IF /\ existsSync(w, StreamPath(w, p))
               /\ statSize(w, StreamPath(w, p)) > MAX_FILE_SIZE
            THEN reopen(streamEnd(w, p), p)
            ELSE w, p)

\* rotateIfNeeded() of the refined variant
rotateIfNeededRefined(w, p) ==
  IF ~existsSync(w, w.currentFile[p])
  THEN initStream([w EXCEPT !.obs.reinit = TRUE], p)
  ELSE Retention(IF statSize(w, w.currentFile[p]) > MAX_FILE_SIZE
                 THEN initStream([streamEnd(w, p) EXCEPT !.obs.rotated = TRUE], p)
                 ELSE w, p)

rotateIfNeeded(w, p) ==
  IF variant = "simple" THEN rotateIfNeededSimple(w, p)
  ELSE rotateIfNeededRefined(w, p)

\* ------------------------------------------------------- the Writer Facade
\* The observation of a call notes whether the file of the active handle had
\* been removed from outside (the directory still there) when it was made.
BeginCall(w, p, level, id) ==
  [w EXCEPT !.obs = [NoObs EXCEPT
                 !.op = "writeLog", !.pid = p, !.src = w.obs.src,
                 !.made = w.obs.made, !.level = level,
                 !.line = id,
                 !.preRemoved = dirExists /\ w.streams[w.stream[p]].ext]]

\* if (!USE_JSON) process.stdout.write(line)
stdoutWrite(w) == IF USE_JSON THEN w ELSE [w EXCEPT !.obs.out = @ + 1]

\* stream.write(line), which an exception of rotateIfNeeded() does not reach
handLine(w, p, id, len) == IF w.obs.threw THEN w ELSE streamWrite(w, p, id, len)

\* the body of writeLog without its first statement, the debug gate
writeLogUngated(w, p, level, id, len) ==
  handLine(rotateIfNeeded(stdoutWrite(w), p), p, id, len)

\* the body of writeLog from its first statement on
writeLogFrom(w, p, level, id, len) ==
  IF level = "debug" /\ ~ENABLE_DEBUG THEN w
  ELSE handLine(rotateIfNeeded(stdoutWrite(w), p), p, id, len)

\* writeLog(level, message): `id` names the line, `len` is its length in bytes
writeLog(w, p, level, id, len) ==
  writeLogFrom(BeginCall(w, p, level, id), p, level, id, len)

\* --------------------------------------------------------------- messages
\* A message is a string, or a value with the text JSON.stringify gives for
\* it; JSON.stringify gives undefined for undefined and throws on a circular
\* object.
MsgAlphabet == <<"a", "b", "c", "d", "e", "f", "g">>
TextOf(n) == [i \in 1..n |-> MsgAlphabet[(i % Len(MsgAlphabet)) + 1]]
Messages ==
  {[kind |-> k, text |-> TextOf(n)] : k \in {"string", "object"}, n \in MsgLens}
    \cup {[kind |-> "undefined", text |-> <<>>], [kind |-> "circular", text |-> <<>>]}

maxLength == 1000
Truncated == <<".", ".", ".", "[", "t", "r", "u", "n", "c", "a", "t", "e", "d", "]">>
Unserializable ==
  <<"[", "U", "n", "s", "e", "r", "i", "a", "l", "i", "z", "a", "b", "l", "e", " ",
    "O", "b", "j", "e", "c", "t", "]">>

\* str.slice(0, maxLength) + "...[truncated]" where the cut is one character short
safeStringifyShort(m) ==
  IF m.kind \in {"undefined", "circular"} THEN Unserializable
  ELSE IF Len(m.text) > maxLength
       THEN SubSeq(m.text, 1, maxLength - 1) \o Truncated
       ELSE m.text

\* safeStringify(obj): str.length of undefined throws like JSON.stringify of a
\* circular object, and the catch returns the fixed text
safeStringify(m) ==
  IF m.kind \in {"undefined", "circular"} THEN Unserializable
  ELSE IF Len(m.text) > maxLength
       THEN SubSeq(m.text, 1, maxLength) \o Truncated
       ELSE m.text

\* the line writeLog builds: the message is cut first and then wrapped, as a
\* JSON object in structured mode, behind the bracketed fields in plain mode
formatLine(p, level, m) ==
  [json |-> USE_JSON, pid |-> p, level |-> level, message |-> safeStringify(m)]

\* the bytes of a line: timestamp (24), pid, level and message with the fixed
\* text around them; the message alphabet needs no escapes
lineBytes(line) ==
  IF line.json
  THEN 14 + 24 + 8 + Len(IntToString(line.pid)) + 10 + Len(line.level) + 13
         + Len(line.message) + 2 + 1
  ELSE 1 + 24 + 1 + 6 + Len(IntToString(line.pid)) + 1 + 2 + Len(line.level) + 1
         + 1 + Len(line.message) + 1

\* ------------------------------------------------------- the tailed file
\* The file captureFile is given: absent, present but not readable, or
\* readable with its content (empty or not).
Absent == [exists |-> FALSE, readable |-> FALSE, data |-> <<>>]
Targets ==
  {Absent,
   [exists |-> TRUE, readable |-> FALSE, data |-> <<>>],
   [exists |-> TRUE, readable |-> TRUE, data |-> <<>>],
   [exists |-> TRUE, readable |-> TRUE, data |-> TextOf(MsgShort)]}
filePath == <<"t">>
\* `Logs de archivo ${filePath}: ${data}`
TailMessage(data) ==
  [kind |-> "string",
   text |-> <<"L", "o", "g", "s", " ", "d", "e", " ", "a", "r", "c", "h", "i", "v",
              "o", " ">> \o filePath \o <<":", " ">> \o data]

\* -------------------------------------------------------------------- Init
EmptyWorld ==
  [disk |-> << >>, streams |-> << >>, nextSid |-> 1, stream |-> [p \in PIDs |-> 0],
   currentFile |-> [p \in PIDs |-> <<>>], lost |-> {}, obs |-> NoObs]

\* the module's top level: the first stream is created when the module loads
LoadModule(w, p) ==
  IF variant = "simple" THEN createWriteStream(w, p, getLogFile(w, p), TRUE)
  ELSE [initStream(w, p) EXCEPT !.obs = NoObs]

RECURSIVE LoadAll(_, _)
LoadAll(w, ps) ==
  IF ps = {} THEN w
  ELSE LET p == CHOOSE q \in ps : \A r \in ps : q <= r
       IN LoadAll(LoadModule(w, p), ps \ {p})

Loaded(w) ==
  /\ disk = w.disk /\ streams = w.streams /\ nextSid = w.nextSid
  /\ stream = w.stream /\ currentFile = w.currentFile /\ lost = w.lost
  /\ obs = w.obs

Becomes(w) ==
  /\ disk' = w.disk /\ streams' = w.streams /\ nextSid' = w.nextSid
  /\ stream' = w.stream /\ currentFile' = w.currentFile /\ lost' = w.lost
  /\ obs' = w.obs

InitWith(variants, envs, jsons, pids, budget, odd) ==
  /\ variant \in variants
  /\ nodeEnv \in envs
  /\ logJson \in jsons
  /\ active = pids
  /\ maxCalls = budget
  /\ oddLeft = odd
  /\ day = 1 /\ tod = 0
  /\ dirExists = TRUE
  /\ births = 0 /\ everCreated = {}
  /\ calls = 0
  /\ listeners = <<>> /\ live = << >> /\ caps = 0 /\ chunks = 0
  /\ target = Absent /\ timers = << >> /\ ticks = 0
  /\ shutdown = [signals |-> 0, cb |-> {}, owed |-> {}, exited |-> FALSE]
  /\ Loaded(LoadAll(EmptyWorld, pids))

Init == InitWith({"simple", "refined"}, NodeEnvs, LogJsons, {PID1}, MaxCalls, MaxOdd)

\* ----------------------------------------------------------------- actions
Config == <<variant, nodeEnv, logJson, active, maxCalls>>
Capture == <<listeners, live, caps, chunks>>
Poll == <<target, timers, ticks>>
Clock == <<day, tod>>

\* the state a handler starts from, with the name of who calls the logger
From(src) == [World EXCEPT !.obs = [NoObs EXCEPT !.src = src]]

\* the budget of calls
Budget(p, len) ==
  /\ p \in active
  /\ calls < maxCalls
  /\ LET odd == len = SmallLine \/ streams[stream[p]].queue # <<>>
     IN /\ odd => oddLeft > 0
        /\ oddLeft' = IF odd THEN oddLeft - 1 ELSE oddLeft
  /\ calls' = calls + 1

\* logger.info / warn / error / debug
WriteLog(p, level, len) ==
  /\ Budget(p, len)
  /\ Becomes(writeLog(From("logger"), p, level, calls + 1, len))
  /\ UNCHANGED <<Config, Capture, Poll, shutdown, Clock, dirExists, births, everCreated>>

\* what a call has added to the message it was given
Texted(w, p, level, m) ==
  [w EXCEPT !.obs.msg = m,
            !.obs.text = IF w.obs.handed = <<>> THEN <<>>
                         ELSE <<formatLine(p, level, m)>>]

\* logger.info / warn / error / debug with the message given
LogMessage(p, level, m) ==
  /\ p \in active
  /\ calls < maxCalls
  /\ calls' = calls + 1
  /\ Becomes(Texted(writeLog(From("logger"), p, level, calls + 1,
                             lineBytes(formatLine(p, level, m))),
                    p, level, m))
  /\ UNCHANGED <<Config, Capture, Poll, shutdown, Clock, dirExists, births, everCreated,
                 oddLeft>>

\* the patched console.log / warn / error / debug: the argument list is the message
ConsoleLevel(method) == IF method = "log" THEN "info" ELSE method
ConsoleMethods == {"log", "warn", "error", "debug"}

Console(p, method, len) ==
  /\ Budget(p, len)
  /\ Becomes(writeLog(From("console"), p, ConsoleLevel(method), calls + 1, len))
  /\ UNCHANGED <<Config, Capture, Poll, shutdown, Clock, dirExists, births, everCreated>>

AsyncObs(op, p) == [NoObs EXCEPT !.op = op, !.pid = p]

\* a stream that is not the one `stream` holds goes away once finished
Drop(ss, s) == [t \in DOMAIN ss \ {s} |-> ss[t]]
IsActive(s) == \E p \in PIDs : stream[p] = s

\* the open issued by createWriteStream completes: with flag "a" the file is
\* created when it is missing; with the directory gone the stream fails
StreamOpen(s) ==
  /\ s \in DOMAIN streams
  /\ streams[s].st = "opening"
  /\ LET st == streams[s] IN
     IF dirExists
     THEN /\ streams' = [streams EXCEPT ![s].st = "open"]
          /\ IF st.path \in DOMAIN disk
             THEN UNCHANGED <<disk, births, everCreated>>
             ELSE /\ disk' = disk @@
                       (st.path :> [size |-> 0, lines |-> <<>>, born |-> births + 1])
                  /\ births' = births + 1
                  /\ everCreated' = everCreated \cup {st.path}
          /\ lost' = lost
          /\ obs' = AsyncObs("open", st.pid)
     ELSE /\ streams' = IF IsActive(s)
                        THEN [streams EXCEPT ![s].st = "failed", ![s].queue = <<>>]
                        ELSE Drop(streams, s)
          /\ lost' = lost \cup {st.queue[i][1] : i \in 1..Len(st.queue)}
          /\ obs' = [AsyncObs("openFailed", st.pid) EXCEPT
                       !.diag = IF st.handler THEN 1 ELSE 0,
                       !.uncaught = ~st.handler]
          /\ UNCHANGED <<disk, births, everCreated>>
  /\ UNCHANGED <<Config, Capture, Poll, shutdown, Clock, dirExists, nextSid, stream, currentFile, calls, oddLeft>>

\* the oldest queued line of an open stream is appended to its file
StreamFlush(s) ==
  /\ s \in DOMAIN streams
  /\ streams[s].st = "open"
  /\ streams[s].queue # <<>>
  /\ LET st == streams[s]
         id == Head(st.queue)[1]
         len == Head(st.queue)[2]
     IN /\ streams' = [streams EXCEPT ![s].queue = Tail(@)]
        /\ IF st.orphan
           THEN lost' = lost \cup {id} /\ disk' = disk
           ELSE /\ lost' = lost
                /\ disk' = [disk EXCEPT ![st.path].size = @ + len,
                                        ![st.path].lines = Append(@, id)]
        /\ obs' = AsyncObs("flush", st.pid)
  /\ UNCHANGED <<Config, Capture, Poll, shutdown, Clock, dirExists, births, everCreated, nextSid, stream,
                 currentFile, calls, oddLeft>>

\* an ended stream whose queue is written closes
StreamClose(s) ==
  /\ s \in DOMAIN streams
  /\ streams[s].st = "open"
  /\ streams[s].ended
  /\ streams[s].queue = <<>>
  /\ streams' = IF IsActive(s) THEN [streams EXCEPT ![s].st = "closed"]
                ELSE Drop(streams, s)
  /\ obs' = AsyncObs("close", streams[s].pid)
  /\ UNCHANGED <<Config, Capture, Poll, shutdown, Clock, dirExists, disk, births, everCreated, nextSid,
                 stream, currentFile, calls, oddLeft, lost>>

\* a second passes
Tick ==
  /\ tod < MaxTod
  /\ tod' = tod + 1
  /\ obs' = AsyncObs("tick", 0)
  /\ UNCHANGED <<Config, Capture, Poll, shutdown, day, dirExists, disk, births, everCreated, streams, nextSid,
                 stream, currentFile, calls, oddLeft, lost>>

\* midnight passes
NextDay ==
  /\ day < Len(Days)
  /\ day' = day + 1
  /\ tod' = 0
  /\ obs' = AsyncObs("nextDay", 0)
  /\ UNCHANGED <<Config, Capture, Poll, shutdown, dirExists, disk, births, everCreated, streams, nextSid,
                 stream, currentFile, calls, oddLeft, lost>>

\* marks the streams whose open file was just removed from outside
MarkExt(w, old) ==
  [w EXCEPT !.streams = [s \in DOMAIN w.streams |->
      IF w.streams[s].orphan /\ ~old[s].orphan
      THEN [w.streams[s] EXCEPT !.ext = TRUE] ELSE w.streams[s]]]

\* something outside the process removes a file of the log directory
ExtRemoveFile(f) ==
  /\ f \in DOMAIN disk
  /\ Becomes([MarkExt(unlinkSync(World, f), streams) EXCEPT
                !.obs = AsyncObs("extRemoveFile", 0)])
  /\ UNCHANGED <<Config, Capture, Poll, shutdown, Clock, dirExists, births, everCreated, calls, oddLeft>>

\* something outside the process removes the log directory
ExtRemoveDir ==
  /\ dirExists
  /\ dirExists' = FALSE
  /\ disk' = << >>
  /\ streams' = [s \in DOMAIN streams |->
                   IF streams[s].st = "open"
                   THEN [streams[s] EXCEPT !.orphan = TRUE, !.ext = TRUE]
                   ELSE streams[s]]
  /\ obs' = AsyncObs("extRemoveDir", 0)
  /\ UNCHANGED <<Config, Capture, Poll, shutdown, Clock, births, everCreated, nextSid, stream, currentFile,
                 calls, oddLeft, lost>>

\* ------------------------------------------------------------ termination
\* flushAndExit, the SIGINT / SIGTERM handler: stream.end(() => process.exit()).
\* The callback runs when the stream has finished, and also when it is or
\* becomes destroyed.
FlushAndExit(p) ==
  /\ p \in active
  /\ shutdown.signals < MaxSignals
  /\ shutdown' = [shutdown EXCEPT !.signals = @ + 1,
                                  !.cb = @ \cup {stream[p]},
                                  !.owed = @ \cup QueuedOn(streams[stream[p]])]
  /\ streams' = IF streams[stream[p]].st \in {"closed", "failed"} THEN streams
                ELSE [streams EXCEPT ![stream[p]].ended = TRUE]
  /\ obs' = AsyncObs("signal", p)
  /\ UNCHANGED <<Config, Capture, Poll, Clock, dirExists, disk, births,
                 everCreated, nextSid, stream, currentFile, calls, oddLeft, lost>>

\* the streams of a process
StreamsOf(p) == {s \in DOMAIN streams : streams[s].pid = p}

\* the callback of stream.end runs: process.exit().  The "exit" listener calls
\* stream.end(), which writes nothing; what the streams still hold is gone.
ProcessExit(p) ==
  /\ p \in active
  /\ \E s \in shutdown.cb :
       IF s \in DOMAIN streams THEN streams[s].st \in {"closed", "failed"} ELSE TRUE
  /\ shutdown' = [shutdown EXCEPT !.exited = TRUE]
  /\ active' = active \ {p}
  /\ lost' = lost \cup UNION {QueuedOn(streams[s]) : s \in StreamsOf(p)}
  /\ streams' = [s \in DOMAIN streams \ StreamsOf(p) |-> streams[s]]
  /\ obs' = AsyncObs("exit", p)
  /\ UNCHANGED <<variant, nodeEnv, logJson, maxCalls, Capture, Poll, Clock, dirExists,
                 disk, births, everCreated, nextSid, stream, currentFile, calls,
                 oddLeft>>

\* ------------------------------------------------------ child processes
\* The child processes handed to captureProcess: a stream that is not piped is
\* null on the ChildProcess object.
Children == {[name |-> "a", pipes |-> {"stdout", "stderr"}],
             [name |-> "b", pipes |-> {"stdout"}]}

\* listeners that log both streams at info
captureListenersInfo(cap, child) ==
  [i \in 1..Cardinality(child.pipes) |->
     [cap |-> cap, child |-> child.name,
      chan |-> IF i = 1 /\ "stdout" \in child.pipes THEN "stdout" ELSE "stderr",
      level |-> "info"]]

\* the listeners captureProcess registers: proc.stdout?.on("data", ...) logs at
\* info, proc.stderr?.on("data", ...) at error
captureListeners(cap, child) ==
  (IF "stdout" \in child.pipes
   THEN <<[cap |-> cap, child |-> child.name, chan |-> "stdout", level |-> "info"]>>
   ELSE <<>>)
  \o
  (IF "stderr" \in child.pipes
   THEN <<[cap |-> cap, child |-> child.name, chan |-> "stderr", level |-> "error"]>>
   ELSE <<>>)

\* captureProcess(proc): the refined variant returns a function that detaches
\* the two listeners, the simple variant returns nothing
CaptureProcess(child) ==
  /\ caps < MaxCaptures
  /\ caps' = caps + 1
  /\ listeners' = listeners \o captureListeners(caps + 1, child)
  /\ live' = live @@ ((caps + 1) :> child.name)
  /\ obs' = [NoObs EXCEPT !.op = "captureProcess", !.child = child.name,
                          !.ret = IF variant = "refined" THEN "function"
                                  ELSE "undefined"]
  /\ UNCHANGED <<Config, Clock, Poll, shutdown, dirExists, disk, births, everCreated, streams,
                 nextSid, stream, currentFile, calls, oddLeft, lost, chunks>>

\* the function captureProcess returned: proc.stdout?.off / proc.stderr?.off
Detach(cap) ==
  /\ variant = "refined"
  /\ cap \in DOMAIN live
  /\ listeners' = SelectSeq(listeners, LAMBDA l : l.cap # cap)
  /\ live' = [c \in DOMAIN live \ {cap} |-> live[c]]
  /\ obs' = [NoObs EXCEPT !.op = "detach"]
  /\ UNCHANGED <<Config, Clock, Poll, shutdown, dirExists, disk, births, everCreated, streams,
                 nextSid, stream, currentFile, calls, oddLeft, lost, caps, chunks>>

\* notes the log call a listener of capture `cap` has made
Listened(w, cap) ==
  [w EXCEPT !.obs.made = Append(@, [cap |-> cap, level |-> w.obs.level])]

RECURSIVE Deliver(_, _, _, _, _)
\* emit("data", chunk): the listeners run in the order they were registered,
\* each logging data.toString(); a listener that throws ends the emit
Deliver(w, ls, p, id, len) ==
  IF ls = <<>> \/ w.obs.threw THEN w
  ELSE Deliver(Listened(writeLog(w, p, Head(ls).level, id, len), Head(ls).cap),
               Tail(ls), p, id + 1, len)

\* the chunk has been delivered to the listeners `ls`
Emitted(w, child, chan) ==
  /\ calls' = calls + Len(w.obs.made)
  /\ Becomes([w EXCEPT !.obs.op = "data", !.obs.child = child.name,
                       !.obs.chan = chan])

EmitTo(ls, p, child, chan, len) ==
  /\ calls + Len(ls) <= maxCalls
  /\ Emitted(Deliver(From("capture"), ls, p, calls + 1, len), child, chan)

\* a child process writes a chunk to one of its piped streams
EmitData(p, child, chan, len) ==
  /\ p \in active
  /\ chan \in child.pipes
  /\ chunks < MaxChunks
  /\ chunks' = chunks + 1
  /\ EmitTo(SelectSeq(listeners, LAMBDA l : l.child = child.name /\ l.chan = chan),
            p, child, chan, len)
  /\ UNCHANGED <<Config, Clock, Poll, shutdown, dirExists, births, everCreated, oddLeft,
                 listeners, live, caps>>

\* the path of the stream `stream` holds
\* ------------------------------------------------------------ file tail
\* captureFile(filePath, interval): returns at once when the file does not
\* exist; otherwise sets the interval, and only the refined variant returns
\* the function that clears it
CaptureFile ==
  /\ Cardinality(DOMAIN timers) < MaxTails
  /\ timers' = IF target.exists
               THEN timers @@ ((Cardinality(DOMAIN timers) + 1) :> TRUE)
               ELSE timers
  /\ obs' = [NoObs EXCEPT !.op = "captureFile",
                          !.timer = IF target.exists
                                    THEN Cardinality(DOMAIN timers) + 1 ELSE 0,
                          !.ret = IF target.exists /\ variant = "refined"
                                  THEN "function" ELSE "undefined"]
  /\ UNCHANGED <<Config, Capture, Clock, shutdown, dirExists, disk, births,
                 everCreated, streams, nextSid, stream, currentFile, calls,
                 oddLeft, lost, target, ticks>>

\* the function captureFile returned: clearInterval(timer)
Cancel(t) ==
  /\ variant = "refined"
  /\ t \in DOMAIN timers
  /\ timers' = [timers EXCEPT ![t] = FALSE]
  /\ obs' = [NoObs EXCEPT !.op = "cancel", !.timer = t]
  /\ UNCHANGED <<Config, Capture, Clock, shutdown, dirExists, disk, births,
                 everCreated, streams, nextSid, stream, currentFile, calls,
                 oddLeft, lost, target, ticks>>

\* the callback of the interval: an absent file returns (refined) or makes
\* readFileSync throw into the empty catch (simple), an unreadable one throws
\* into the catch, empty data is falsy, anything else is logged at info
Polled(w, p, t) ==
  IF target.exists /\ target.readable /\ target.data # <<>>
  THEN [Texted(writeLog(w, p, "info", calls + 1,
                        lineBytes(formatLine(p, "info", TailMessage(target.data)))),
               p, "info", TailMessage(target.data))
          EXCEPT !.obs.op = "tick", !.obs.timer = t, !.obs.made = <<t>>]
  ELSE [w EXCEPT !.obs.op = "tick", !.obs.timer = t]

\* a tick of a polling timer that has not been cleared
PollTick(p, t) ==
  /\ p \in active
  /\ t \in DOMAIN timers /\ timers[t]
  /\ ticks < MaxTicks
  /\ ticks' = ticks + 1
  /\ calls' = calls + Len(Polled(From("tail"), p, t).obs.made)
  /\ Becomes(Polled(From("tail"), p, t))
  /\ UNCHANGED <<Config, Capture, Clock, shutdown, dirExists, births, everCreated,
                 oddLeft, target, timers>>

\* the tailed file is created, written, emptied, made unreadable or removed
TargetChange(f) ==
  /\ f # target
  /\ target' = f
  /\ obs' = [NoObs EXCEPT !.op = "target"]
  /\ UNCHANGED <<Config, Capture, Clock, shutdown, dirExists, disk, births,
                 everCreated, streams, nextSid, stream, currentFile, calls,
                 oddLeft, lost, timers, ticks>>

ActivePath(p) == streams[stream[p]].path

Logs == \E p \in PIDs, level \in Levels, len \in LineLens : WriteLog(p, level, len)
Opens == \E s \in DOMAIN streams : StreamOpen(s)
Flushes == \E s \in DOMAIN streams : StreamFlush(s)
Closes == \E s \in DOMAIN streams : StreamClose(s)
LogsInfo == \E p \in PIDs, len \in LineLens : WriteLog(p, "info", len)
Consoles ==
  \E p \in PIDs, method \in ConsoleMethods, len \in LineLens : Console(p, method, len)
RemovesActive == \E p \in active : ExtRemoveFile(ActivePath(p))

\* Every start configuration of either variant, logging through the logger and
\* the patched console, with the log directory removed at any moment.
Next ==
  \/ Logs
  \/ Consoles
  \/ Opens
  \/ Flushes
  \/ Closes
  \/ ExtRemoveDir

Spec == Init /\ [][Next]_vars

\* ---------------------------------------------------------------- faults
\* A process started with the default environment while something outside
\* removes the file of its active handle or the whole log directory.
InitFault ==
  InitWith({"simple", "refined"}, {"unset"}, {"unset"}, {PID1}, MaxFaultCalls,
           MaxFaultCalls)

NextFault ==
  \/ LogsInfo
  \/ Opens
  \/ Flushes
  \/ Closes
  \/ RemovesActive
  \/ ExtRemoveDir

SpecFault == InitFault /\ [][NextFault]_vars

\* ------------------------------------------------------------- the clock
\* A process that keeps running while seconds and midnight pass.
NextDayRun ==
  \/ LogsInfo
  \/ Opens
  \/ Flushes
  \/ Closes
  \/ Tick
  \/ NextDay

InitDay ==
  InitWith({"simple", "refined"}, {"unset"}, {"unset"}, {PID1}, MaxFaultCalls, MaxOdd)

SpecDay == InitDay /\ [][NextDayRun]_vars

\* -------------------------------------------------------------- rotation
\* One process of the simple variant logging through many rotations of one day,
\* nothing else touching the directory.  Lines are long and are logged one at a
\* time, but for MaxDeepOdd calls.
InitRotate ==
  InitWith({"simple"}, {"unset"}, {"unset"}, {PID1}, MaxDeepCalls, MaxDeepOdd)

NextRotate ==
  \/ LogsInfo
  \/ Opens
  \/ Flushes
  \/ Closes

SpecRotate == InitRotate /\ [][NextRotate]_vars

\* ------------------------------------------------- properties of rotation
\* the files of p's family of the current day that are on disk
FamilyOnDisk(p) == {f \in DOMAIN disk : startsWith(f, FamilyPrefix(p))}

\* the last operation was a log call that passed the debug gate
Logged == obs.op = "writeLog" /\ (obs.level # "debug" \/ ENABLE_DEBUG)

\* C1: retention keeps the newest files: the rotation check never deletes a file
\* while a file of the family created before it remains, and a check that
\* deleted something leaves exactly MAX_FILES files of the family.
C1_RetentionKeepsNewest ==
  (Logged /\ obs.deleted # <<>>) =>
    /\ \A i \in DOMAIN obs.deleted :
         \A f \in FamilyOnDisk(obs.pid) : disk[f].born > obs.deleted[i].born
    /\ Cardinality(FamilyOnDisk(obs.pid)) = MAX_FILES

\* C3: sequence numbers are monotone within a day: a path the File Namer returns
\* while the family's newest file is over the threshold carries a sequence number
\* greater than that of every file created for the family before.
C3_SequenceIncreases ==
  Logged =>
    \A i \in DOMAIN obs.namer :
      obs.namer[i].over =>
        \A f \in everCreated :
          startsWith(f, FamilyPrefix(obs.pid)) => SeqOf(f) < SeqOf(obs.namer[i].path)

\* C4: retention cap: at most MAX_FILES files of the current family are on disk
\* at any moment after a rotation check, the file of the active handle counted
\* once its open has created it.
C4_RetentionCap ==
  \A p \in active : Cardinality(FamilyOnDisk(p)) <= MAX_FILES

\* the number of times line id stands in the files of the directory
RECURSIVE CountIn(_, _)
CountIn(id, fs) ==
  IF fs = {} THEN 0
  ELSE LET f == CHOOSE g \in fs : TRUE
       IN Cardinality({i \in DOMAIN disk[f].lines : disk[f].lines[i] = id})
            + CountIn(id, fs \ {f})

\* C6: side effects per call: a call that passes the gate hands its line to
\* exactly one handle and writes once to standard output in plain mode, not at
\* all in structured mode; no line misses the files of the directory and none
\* stands in them twice.
C6_OneLinePerCall ==
  /\ Logged => /\ Len(obs.handed) = 1
               /\ obs.out = (IF USE_JSON THEN 0 ELSE 1)
  /\ lost = {}
  /\ \A id \in 1..calls : CountIn(id, DOMAIN disk) <= 1

\* ---------------------------------------------------------- two processes
\* Two processes whose pids share a leading digit log to the same directory on
\* the same day.
InitTwo ==
  InitWith({"simple", "refined"}, {"unset"}, {"unset"}, {PID1, PID2}, MaxTwoCalls, 0)

\* the second process logs only among the first MaxOtherCalls calls
LogsTwo ==
  \E p \in PIDs, len \in LineLens :
    /\ p = PID2 => calls < MaxOtherCalls
    /\ WriteLog(p, "info", len)

NextTwo ==
  \/ LogsTwo
  \/ Opens
  \/ Flushes
  \/ Closes

SpecTwo == InitTwo /\ [][NextTwo]_vars

\* ------------------------------------------------------------ termination
\* A process that logs and is sent SIGINT or SIGTERM; it may go on logging
\* until process.exit runs.
InitExit ==
  InitWith({"simple", "refined"}, {"unset"}, {"unset"}, {PID1}, MaxCalls, MaxOdd)

Signals == \E p \in PIDs : FlushAndExit(p)
Exits == \E p \in PIDs : ProcessExit(p)

NextExit ==
  \/ LogsInfo
  \/ Signals
  \/ Exits
  \/ Opens
  \/ Flushes
  \/ Closes

SpecExit == InitExit /\ [][NextExit]_vars

\* --------------------------------------------------------------- messages
\* A process logging messages of every kind and of lengths around maxLength, in
\* plain and in structured mode.
InitMessages ==
  InitWith({"simple", "refined"}, {"unset", "production"}, {"unset", "true"}, {PID1},
           MaxMsgCalls, 0)

LogsMessages ==
  \E p \in PIDs, level \in {"info", "debug"}, m \in Messages : LogMessage(p, level, m)

NextMessages ==
  \/ LogsMessages
  \/ Opens
  \/ Flushes

SpecMessages == InitMessages /\ [][NextMessages]_vars

\* ---------------------------------------------------------------- capture
\* A process capturing the output of child processes, and logging itself.
InitCapture ==
  InitWith({"simple", "refined"}, {"unset"}, {"unset"}, {PID1}, MaxCalls, MaxOdd)

Captures == \E child \in Children : CaptureProcess(child)
Detaches == \E cap \in DOMAIN live : Detach(cap)
Emits ==
  \E p \in PIDs, child \in Children, chan \in {"stdout", "stderr"},
     len \in LineLens : EmitData(p, child, chan, len)

NextCapture ==
  \/ LogsInfo
  \/ Captures
  \/ Detaches
  \/ Emits
  \/ Opens
  \/ Flushes
  \/ Closes

SpecCapture == InitCapture /\ [][NextCapture]_vars

\* ------------------------------- properties of faults, days and the gate
\* C2: a logging call never throws, whatever the state of the file system.
C2_NeverThrows == obs.op = "writeLog" => ~obs.threw

\* C5: daily files: a call hands its line to a handle on a file named for the
\* day of the call.
C5_DailyFiles ==
  Logged =>
    \A i \in DOMAIN obs.handed :
      startsWith(streams[obs.handed[i]].path, FamilyPrefix(obs.pid))

\* C7: the debug gate: with the debug level disabled (ENV, which is NODE_ENV or
\* "development" when NODE_ENV is unset or empty, is not "development") a debug
\* call, through the logger or the patched console, writes nothing and changes
\* nothing: not the handle, not the files, not their contents.
C7_DebugGate ==
  [][(obs'.op = "writeLog" /\ obs'.level = "debug" /\ calls' = calls + 1
        /\ ~ENABLE_DEBUG)
      => /\ obs'.out = 0 /\ obs'.handed = <<>> /\ obs'.deleted = <<>>
         /\ obs'.namer = <<>> /\ ~obs'.threw
         /\ disk' = disk /\ streams' = streams /\ nextSid' = nextSid
         /\ stream' = stream /\ currentFile' = currentFile /\ lost' = lost]_vars

\* C7 as stated: the debug level taken to be disabled whenever NODE_ENV is set
\* and is not "development", the empty string included.
C7_DebugGateAsStated ==
  [][(obs'.op = "writeLog" /\ obs'.level = "debug" /\ calls' = calls + 1
        /\ nodeEnv \notin {"unset", "development"})
      => /\ obs'.out = 0 /\ obs'.handed = <<>> /\ obs'.deleted = <<>>
         /\ obs'.namer = <<>> /\ ~obs'.threw
         /\ disk' = disk /\ streams' = streams /\ nextSid' = nextSid
         /\ stream' = stream /\ currentFile' = currentFile /\ lost' = lost]_vars

C7_Witness ==
  /\ obs.op = "writeLog" /\ obs.level = "debug" /\ ~ENABLE_DEBUG
  /\ obs.src = "console"
  /\ \E f \in DOMAIN disk : disk[f].lines # <<>>

\* C8: self-healing (refined variant): when the file of the active handle was
\* removed from outside and the directory is still there, the next call that
\* passes the gate re-initializes: it takes a path from the File Namer, opens a
\* new handle on it and hands its line to that handle.
C8_SelfHeals ==
  (variant = "refined" /\ Logged /\ obs.preRemoved) =>
    /\ obs.reinit /\ ~obs.threw
    /\ Len(obs.namer) = 1 /\ Len(obs.handed) = 1
    /\ obs.handed[1] = stream[obs.pid]
    /\ streams[obs.handed[1]].path = obs.namer[1].path
    /\ ~streams[obs.handed[1]].orphan
    /\ obs.line \notin lost

\* the captures attached to the stream the last chunk came on
AttachedTo(child, chan) ==
  {cap \in DOMAIN live :
     /\ live[cap] = child
     /\ \E c \in Children : c.name = child /\ chan \in c.pipes}

MadeBy(cap) == SelectSeq(obs.made, LAMBDA m : m.cap = cap)

\* C9: child-process capture maps streams to levels: a chunk on stdout makes one
\* log call at info for each capture attached, a chunk on stderr one at error,
\* and no other call.
C9_CaptureLevels ==
  obs.op = "data" =>
    /\ \A cap \in AttachedTo(obs.child, obs.chan) :
         MadeBy(cap) = <<[cap |-> cap,
                          level |-> IF obs.chan = "stdout" THEN "info" ELSE "error"]>>
    /\ Len(obs.made) = Cardinality(AttachedTo(obs.child, obs.chan))

C9_Witness ==
  /\ obs.op = "data" /\ obs.chan = "stderr"
  /\ Len(obs.made) = 1 /\ obs.made[1].level = "error"
  /\ chunks = 2

\* the process id a file name carries: the digits after "app-"
NamePid(name) == parseInt(SubSeq(name, Len(App) + 2, Len(name)))

\* C10: processes are isolated by pid: the files a process lists under its
\* prefix, the paths its File Namer returns, the files its handles are on and
\* the files its retention deletes all carry its own pid, never the other's.
C10_PidIsolation ==
  /\ \A p \in active : \A f \in FamilyOnDisk(p) : NamePid(f) = p
  /\ \A s \in DOMAIN streams : NamePid(streams[s].path) = streams[s].pid
  /\ \A i \in DOMAIN obs.namer : NamePid(obs.namer[i].path) = obs.pid
  /\ \A i \in DOMAIN obs.deleted : NamePid(obs.deleted[i].name) = obs.pid

C10_Witness ==
  /\ obs.op = "writeLog" /\ obs.pid = PID1 /\ obs.deleted # <<>> /\ obs.rotated
  /\ \E f \in DOMAIN disk : NamePid(f) = PID2

\* C11: flush before exit: process.exit runs only after every line that was
\* queued on the active handle when a termination signal arrived has been
\* written to its file.
C11_FlushBeforeExit == shutdown.exited => shutdown.owed \cap lost = {}

\* C12: truncation: in plain and in structured mode the message of a line is
\* the first 1000 characters of the serialized form followed by
\* "...[truncated]" when the serialized form is longer than 1000 characters,
\* and the serialized form unchanged when it is not.
C12_Truncation ==
  (obs.op = "writeLog" /\ obs.text # <<>> /\ obs.msg.kind \in {"string", "object"}) =>
    LET ser == obs.msg.text
        placed == obs.text[1].message
    IN IF Len(ser) > 1000
       THEN /\ Len(placed) = 1000 + Len(Truncated)
            /\ \A i \in 1..1000 : placed[i] = ser[i]
            /\ \A i \in 1..Len(Truncated) : placed[1000 + i] = Truncated[i]
       ELSE placed = ser

C12_Witness ==
  /\ obs.op = "writeLog" /\ obs.text # <<>> /\ obs.msg.kind = "object"
  /\ Len(obs.msg.text) = MsgOver /\ USE_JSON
  /\ Len(obs.text[1].message) = 1014

\* the streams of process p that have not been ended
Unended(p) ==
  {s \in DOMAIN streams :
     streams[s].pid = p /\ ~streams[s].ended /\ streams[s].st \in {"opening", "open"}}

\* C13: single active handle (refined variant): at every moment a process has
\* at most one write stream that has not been ended, the handle it replaced
\* having been ended before the new one was opened.
C13_SingleHandle ==
  variant = "refined" => \A p \in active : Cardinality(Unended(p)) <= 1

\* C14: the first file of a day is number 1: while no file of a process's family
\* has been created, every path the File Namer has given the process carries
\* the sequence number 1.
C14_FirstIsOne ==
  \A s \in DOMAIN streams :
    (\A f \in everCreated : ~startsWith(f, FamilyPrefix(streams[s].pid)))
      => SeqOf(streams[s].path) = 1

\* C15: detaching child-process capture: captureProcess returns a function, and
\* once that function has been invoked no chunk makes a log call for its
\* capture; the captures not detached go on logging.
C15_Detach ==
  /\ obs.op = "captureProcess" => obs.ret = "function"
  /\ obs.op = "data" =>
       /\ \A i \in DOMAIN obs.made : obs.made[i].cap \in DOMAIN live
       /\ \A cap \in AttachedTo(obs.child, obs.chan) : Len(MadeBy(cap)) = 1

\* ------------------------------------------------------------- file tail
\* A process that tails a file while the file changes.
InitTail ==
  InitWith({"simple", "refined"}, {"unset"}, {"unset"}, {PID1}, MaxTicks, 0)

Tails == CaptureFile
Cancels == \E t \in DOMAIN timers : Cancel(t)
Ticks == \E p \in PIDs, t \in DOMAIN timers : PollTick(p, t)
Targeted == \E f \in Targets : TargetChange(f)

NextTail ==
  \/ Tails
  \/ Cancels
  \/ Ticks
  \/ Targeted
  \/ Opens
  \/ Flushes

SpecTail == InitTail /\ [][NextTail]_vars

\* C16: every captureFile call returns a cancel function, whether or not the
\* file exists when it is made; a tick that finds the file with content logs
\* exactly the one info line "Logs de archivo <path>: <content>", a tick that
\* finds it absent, unreadable or empty logs nothing and leaves the timer
\* running; a timer that was cancelled makes no tick.
C16_TailLifecycle ==
  /\ obs.op = "captureFile" => obs.ret = "function" /\ obs.timer \in DOMAIN timers
  /\ obs.op = "tick" =>
       /\ timers[obs.timer]
       /\ IF target.exists /\ target.readable /\ target.data # <<>>
          THEN /\ Len(obs.handed) = 1 /\ obs.level = "info"
               /\ obs.text = <<formatLine(obs.pid, "info", TailMessage(target.data))>>
          ELSE obs.handed = <<>> /\ obs.out = 0

\* C17: retention never deletes the active file: a file the retention loop of a
\* rotation check removes is not the file of the handle that is active when
\* the loop runs, and the line of the call is not handed to a stream whose
\* file the loop has unlinked.
C17_RetentionSparesActive ==
  Logged =>
    \A i \in DOMAIN obs.deleted :
      /\ obs.deleted[i].name # ActivePath(obs.pid)
      /\ \A j \in DOMAIN obs.handed :
           obs.handed[j] \in DOMAIN streams =>
             streams[obs.handed[j]].path # obs.deleted[i].name

\* C18: call order is file order: in every file of the directory the lines
\* stand in the order of their calls (a line's id is the number of its call,
\* and a call returns before the next one is made).
C18_CallOrder ==
  \A f \in DOMAIN disk :
    \A i, j \in DOMAIN disk[f].lines :
      i < j => disk[f].lines[i] < disk[f].lines[j]

\* the bytes of the lines of a queue
RECURSIVE QueuedBytes(_)
QueuedBytes(q) == IF q = <<>> THEN 0 ELSE Head(q)[2] + QueuedBytes(Tail(q))

\* C19: size bound per file: a line is handed to the active handle only when the
\* bytes handed to its file before, those on disk and those still queued on the
\* handle, do not exceed MAX_FILE_SIZE; no other process writes the file.
C19_SizeBound ==
  (Logged /\ obs.handed # <<>>) =>
    \A s \in DOMAIN streams :
      (s = obs.handed[1] /\ streams[s].queue # <<>> /\ ~streams[s].orphan) =>
        (IF streams[s].path \in DOMAIN disk THEN disk[streams[s].path].size ELSE 0)
          + QueuedBytes(SubSeq(streams[s].queue, 1, Len(streams[s].queue) - 1))
          <= MAX_FILE_SIZE

====
